---- MODULE Spec2Model ----
(***************************************************************************)
(* Accessible AI Translator: the session state of App, the debounced       *)
(* language-detection effect, the reset-to-auto effect, handleGenerate,    *)
(* handleSwapLanguages, handleImageUpload and the Gemini gateway calls     *)
(* they await.                                                             *)
(*                                                                         *)
(* One action is one browser task: an event handler, a timer callback or   *)
(* the continuation of an awaited gateway call, together with the render   *)
(* it causes and the effects that render runs (Render below).              *)
(*                                                                         *)
(* A text is a sequence of one-character strings, so that trim(), length   *)
(* and toLowerCase() are computed rather than assumed.                     *)
(***************************************************************************)
EXTENDS Integers, Sequences, FiniteSets, Bags, TLC

VARIABLES
    mode,             \* useState<TranslationMode>
    inputText,        \* useState<string>
    outputText,       \* useState<string>
    sourceLang,       \* useState<string>, a catalog code or DETECT_LANGUAGE_CODE
    targetLang,       \* useState<string>
    easyReadLevel,    \* useState<number>
    isLoading,        \* useState<boolean>
    isDetectingLang,  \* useState<boolean>
    error,            \* useState<string | null>
    debounceTimer,    \* debounceTimeoutRef.current: the closure of the timer it names, or NoTimer
    timers,           \* the window's timer table: bag of the closures of the pending timeouts
    detectInFlight,   \* bag of timer-callback closures awaiting geminiService.detectLanguage
    genInFlight,      \* number of handleGenerate invocations awaiting their gateway call
    readsPending,     \* number of FileReader reads started by handleImageUpload
    extractsPending,  \* number of onloadend continuations awaiting extractTextFromImage
    lastOp,           \* name of the handler or callback that ran in the last step
    gatewayCall       \* the geminiService call issued by the last step, or NoCall

vars == << mode, inputText, outputText, sourceLang, targetLang, easyReadLevel,
           isLoading, isDetectingLang, error, debounceTimer, timers,
           detectInFlight, genInFlight, readsPending, extractsPending, lastOp,
           gatewayCall >>

-----------------------------------------------------------------------------
(* Bounds of the model *)

MaxDetectInFlight == 2   \* detectLanguage requests outstanding at once
MaxGenInFlight == 2      \* handleGenerate invocations outstanding at once
MaxUploads == 1          \* handleImageUpload invocations outstanding at once

-----------------------------------------------------------------------------
(* Program constants *)

DETECT_LANGUAGE_CODE == "auto"
DefaultTargetLang == "it"
DefaultEasyReadLevel == 8
MaxEasyReadLevel == 15
DetectMinLength == 10
NULL == "null"

NORMAL == "Normal"
EASY_READ == "Easy to Read"
AAC == "AAC"
TranslationMode == {NORMAL, EASY_READ, AAC}

\* The Language Catalog (./constants): three of its entries. English is not
\* the first one, so "English if different" and "the first different entry"
\* name different languages.
LANGUAGES ==
    << [code |-> "it", name |-> <<"I","t","a","l","i","a","n">>],
       [code |-> "en", name |-> <<"E","n","g","l","i","s","h">>],
       [code |-> "fr", name |-> <<"F","r","e","n","c","h">>] >>

LangCodes == {LANGUAGES[i].code : i \in DOMAIN LANGUAGES}

\* sourceLanguages: the sentinel prepended to the catalog
sourceLanguages ==
    << [code |-> DETECT_LANGUAGE_CODE,
        name |-> <<"D","e","t","e","c","t">>] >> \o LANGUAGES

SourceCodes == {sourceLanguages[i].code : i \in DOMAIN sourceLanguages}

\* Array.prototype.filter, order kept
RECURSIVE FilterCodeNot(_, _)
FilterCodeNot(langs, c) ==
    IF langs = << >> THEN << >>
    ELSE IF Head(langs).code # c
         THEN << Head(langs) >> \o FilterCodeNot(Tail(langs), c)
         ELSE FilterCodeNot(Tail(langs), c)

\* targetLanguages without the filter
targetLanguages_Unfiltered(src) == LANGUAGES

\* targetLanguages = LANGUAGES.filter(lang => lang.code !== sourceLang)
targetLanguages(src) == FilterCodeNot(LANGUAGES, src)

\* LANGUAGES.find(l => l.code === c)?.name || c
LangNameOrCode(c) ==
    IF \E i \in DOMAIN LANGUAGES : LANGUAGES[i].code = c
    THEN LANGUAGES[CHOOSE i \in DOMAIN LANGUAGES :
                      /\ LANGUAGES[i].code = c
                      /\ \A j \in 1..(i-1) : LANGUAGES[j].code # c].name
    ELSE c

-----------------------------------------------------------------------------
(* Strings *)

IsWhiteSpace(ch) == ch \in {" ", "\t", "\n"}

RECURSIVE TrimStart(_)
TrimStart(s) ==
    IF s = << >> THEN << >>
    ELSE IF IsWhiteSpace(Head(s)) THEN TrimStart(Tail(s)) ELSE s

RECURSIVE TrimEnd(_)
TrimEnd(s) ==
    IF s = << >> THEN << >>
    ELSE IF IsWhiteSpace(s[Len(s)]) THEN TrimEnd(SubSeq(s, 1, Len(s) - 1)) ELSE s

\* String.prototype.trim
Trim(s) == TrimEnd(TrimStart(s))

LowerChar(ch) ==
    CASE ch = "E" -> "e" [] ch = "F" -> "f" [] ch = "I" -> "i"
      [] ch = "K" -> "k" [] ch = "R" -> "r" [] ch = "N" -> "n"
      [] OTHER -> ch

\* String.prototype.toLowerCase
ToLowerCase(s) == [i \in DOMAIN s |-> LowerChar(s[i])]

Rep(ch, n) == [i \in 1..n |-> ch]

\* Texts the user types or an image yields
TextEmpty == << >>
TextSpaces == << " ", " " >>
TextPadded == << " " >> \o Rep("a", DetectMinLength)      \* 11 characters, 10 trimmed
TextA == Rep("a", DetectMinLength + 1)
TextB == << " " >> \o Rep("b", DetectMinLength + 1)
Texts == {TextEmpty, TextSpaces, TextPadded, TextA, TextB}

\* Texts the generation endpoint answers with
Results == { << >>, <<"o","k">> }

\* Easy-read levels the slider is moved to (min 1, max 15)
Levels == {DefaultEasyReadLevel, MaxEasyReadLevel}

\* Messages of the errors thrown by the gateway and by handleImageUpload
MsgGenerate == "Failed to get response from AI model."
MsgExtract == "Failed to extract text from image."
MsgRead == "Failed to read the image file."

-----------------------------------------------------------------------------
(* geminiService *)

NoCall == [op |-> "none"]

\* What the endpoint (ai.models.generateContent) does with one request:
\* it answers with a text or it throws.
Threw == [ok |-> FALSE]
Answered(text) == [ok |-> TRUE, text |-> text]

\* Answers of the endpoint to a detection prompt
DetectAnswers ==
    { <<"F","r","e","n","c","h">>,
      <<" ","f","R","E","N","C","H","\n">>,
      <<"E","n","g","l","i","s","h">>,
      <<"I","t","a","l","i","a","n">>,
      <<"K","l","i","n","g","o","n">> }

DetectReplies == {Threw} \cup {Answered(a) : a \in DetectAnswers}
GenerateReplies == {Threw} \cup {Answered(r) : r \in Results}
ExtractReplies == {Threw} \cup {Answered(t) : t \in Texts}

Failed(msg) == [ok |-> FALSE, message |-> msg]
Returned(v) == [ok |-> TRUE, value |-> v]

\* LANGUAGES.find(lang => lang.name.toLowerCase() === langName.trim().toLowerCase())
FindLangByName(langName) ==
    LET wanted == ToLowerCase(Trim(langName))
        hits == {i \in DOMAIN LANGUAGES : ToLowerCase(LANGUAGES[i].name) = wanted}
    IN  IF hits = {} THEN NULL
        ELSE LANGUAGES[CHOOSE i \in hits : \A j \in hits : i <= j].code

\* detectLanguage: the endpoint's failure and the unsupported-language Error
\* are both caught by the one catch block and rethrown with the same message.
detectLanguage(reply) ==
    IF ~reply.ok THEN Failed("Failed to detect language.")
    ELSE IF FindLangByName(reply.text) # NULL
         THEN Returned(FindLangByName(reply.text))
         ELSE Failed("Failed to detect language.")

\* generateContent, behind translateText, simplifyText and generateAAC
generateContent(reply) ==
    IF reply.ok THEN Returned(reply.text) ELSE Failed(MsgGenerate)

\* extractTextFromImage returning an empty string where it should throw
extractTextFromImage_NoThrow(reply) ==
    IF reply.ok THEN Returned(reply.text) ELSE Returned(<< >>)

\* extractTextFromImage
extractTextFromImage(reply) ==
    IF reply.ok THEN Returned(reply.text) ELSE Failed(MsgExtract)

-----------------------------------------------------------------------------
(* App *)

NoTimer == [pending |-> FALSE]

\* The closure of the setTimeout callback: the inputText, sourceLang and
\* targetLang of the render whose effect created it.
Closure(txt, src, tgt) ==
    [pending |-> TRUE, inputText |-> txt, sourceLang |-> src, targetLang |-> tgt]

\* !inputText.trim()
IsBlank(txt) == Trim(txt) = << >>

\* ShouldDetect measuring the text without trimming it
ShouldDetect_NoTrim(txt, src) ==
    src = DETECT_LANGUAGE_CODE /\ Len(txt) > DetectMinLength

\* sourceLang === DETECT_LANGUAGE_CODE && inputText.trim().length > 10
ShouldDetect(txt, src) ==
    src = DETECT_LANGUAGE_CODE /\ Len(Trim(txt)) > DetectMinLength

\* ShouldReset testing the text for emptiness without trimming it
ShouldReset_NoTrim(txt, src) ==
    txt = << >> /\ src # DETECT_LANGUAGE_CODE

\* The reset-to-auto effect: its condition on the values of a render
ShouldReset(txt, src) ==
    IsBlank(txt) /\ src # DETECT_LANGUAGE_CODE

\* clearTimeout(debounceTimeoutRef.current) with the guard before it: the
\* timer the ref names leaves the timer table; a ref whose timer has fired
\* or was cleared (NoTimer) clears nothing.
ClearTimeout_Noop(table, handle) == table

ClearTimeout(table, handle) ==
    IF handle.pending THEN table (-) SetToBag({handle}) ELSE table

\* The render that commits txt, src, tgt and det (the batched setState
\* calls of one task) and the effects it runs, to their fixed point.
\*  - the detection effect (deps inputText, sourceLang, targetLang): its
\*    cleanup clears the pending timer, then detectLanguage() either starts
\*    a new timer and sets isDetectingLang, or clears isDetectingLang;
\*  - the reset effect (deps inputText, sourceLang): sets sourceLang back
\*    to 'auto', which renders again and runs the detection effect again.
Render(txt, src, tgt, det) ==
    LET depsChanged == << txt, src, tgt >> # << inputText, sourceLang, targetLang >>
        reset == << txt, src >> # << inputText, sourceLang >> /\ ShouldReset(txt, src)
        src2 == IF reset THEN DETECT_LANGUAGE_CODE ELSE src
    IN  /\ inputText' = txt
        /\ sourceLang' = src2
        /\ targetLang' = tgt
        /\ debounceTimer' =
              IF depsChanged
              THEN IF ShouldDetect(txt, src2) THEN Closure(txt, src2, tgt) ELSE NoTimer
              ELSE debounceTimer
        /\ timers' =
              IF depsChanged
              THEN IF ShouldDetect(txt, src2)
                   THEN ClearTimeout(timers, debounceTimer)
                           (+) SetToBag({Closure(txt, src2, tgt)})
                   ELSE ClearTimeout(timers, debounceTimer)
              ELSE timers
        /\ isDetectingLang' =
              IF depsChanged THEN ShouldDetect(txt, src2) ELSE det

\* onModeChange={setMode}
SetMode(m) ==
    /\ mode' = m
    /\ lastOp' = "setMode"
    /\ gatewayCall' = NoCall
    /\ UNCHANGED << inputText, outputText, sourceLang, targetLang, easyReadLevel,
                    isLoading, isDetectingLang, error, debounceTimer, timers,
                    detectInFlight, genInFlight, readsPending, extractsPending >>

\* textarea onChange: setInputText(e.target.value)
SetInputText(txt) ==
    /\ Render(txt, sourceLang, targetLang, isDetectingLang)
    /\ lastOp' = "setInputText"
    /\ gatewayCall' = NoCall
    /\ UNCHANGED << mode, outputText, easyReadLevel, isLoading, error,
                    detectInFlight, genInFlight, readsPending, extractsPending >>

\* source LanguageSelector: disabled while isDetectingLang, onChange={setSourceLang}
SetSourceLang(c) ==
    /\ ~isDetectingLang
    /\ Render(inputText, c, targetLang, isDetectingLang)
    /\ lastOp' = "setSourceLang"
    /\ gatewayCall' = NoCall
    /\ UNCHANGED << mode, outputText, easyReadLevel, isLoading, error,
                    detectInFlight, genInFlight, readsPending, extractsPending >>

\* target LanguageSelector: rendered in Normal mode only, its options are
\* targetLanguages, onChange={setTargetLang}
SetTargetLang(c) ==
    /\ mode = NORMAL
    /\ \E i \in DOMAIN targetLanguages(sourceLang) : targetLanguages(sourceLang)[i].code = c
    /\ Render(inputText, sourceLang, c, isDetectingLang)
    /\ lastOp' = "setTargetLang"
    /\ gatewayCall' = NoCall
    /\ UNCHANGED << mode, outputText, easyReadLevel, isLoading, error,
                    detectInFlight, genInFlight, readsPending, extractsPending >>

\* the range input, rendered in Easy-to-Read mode only
SetEasyReadLevel(l) ==
    /\ mode = EASY_READ
    /\ easyReadLevel' = l
    /\ lastOp' = "setEasyReadLevel"
    /\ gatewayCall' = NoCall
    /\ UNCHANGED << mode, inputText, outputText, sourceLang, targetLang,
                    isLoading, isDetectingLang, error, debounceTimer, timers,
                    detectInFlight, genInFlight, readsPending, extractsPending >>

\* CanSwap without the test of mode
CanSwap_AnyMode(m, src) == src # DETECT_LANGUAGE_CODE

\* CanSwap without the test of sourceLang
CanSwap_AutoToo(m, src) == m = NORMAL

\* handleSwapLanguages: its condition
CanSwap(m, src) == m = NORMAL /\ src # DETECT_LANGUAGE_CODE

\* SwapLanguages with the second setter given the value the first one set
SwapLanguages_Sequential(src, tgt) == << tgt, tgt >>

\* handleSwapLanguages: setSourceLang(targetLang); setTargetLang(sourceLang),
\* both given the values of the handler's render, as the pair
\* << sourceLang, targetLang >> of the next render
SwapLanguages(src, tgt) == << tgt, src >>

handleSwapLanguages ==
    /\ IF CanSwap(mode, sourceLang)
       THEN Render(inputText, SwapLanguages(sourceLang, targetLang)[1],
                   SwapLanguages(sourceLang, targetLang)[2], isDetectingLang)
       ELSE UNCHANGED << inputText, sourceLang, targetLang, debounceTimer, timers,
                         isDetectingLang >>
    /\ lastOp' = "swapLanguages"
    /\ gatewayCall' = NoCall
    /\ UNCHANGED << mode, outputText, easyReadLevel, isLoading, error,
                    detectInFlight, genInFlight, readsPending, extractsPending >>

\* GeneratePrecondition without the test of sourceLang
GeneratePrecondition_NoAutoTest(txt, src) ==
    ~IsBlank(txt)

\* handleGenerate: the negation of its early-return condition
GeneratePrecondition(txt, src) ==
    ~IsBlank(txt) /\ src # DETECT_LANGUAGE_CODE

\* GenerateCall with the Easy-to-Read case given the initial level instead
\* of the current one
GenerateCall_InitialLevel(m, txt, src, tgt, level) ==
    CASE m = NORMAL ->
           [op |-> "translateText", text |-> txt,
            sourceLang |-> LangNameOrCode(src), targetLang |-> LangNameOrCode(tgt)]
      [] m = EASY_READ ->
           [op |-> "simplifyText", text |-> txt,
            lang |-> LangNameOrCode(src), level |-> DefaultEasyReadLevel]
      [] m = AAC ->
           [op |-> "generateAAC", text |-> txt, lang |-> LangNameOrCode(src)]

\* handleGenerate: the geminiService call its switch on mode makes
GenerateCall(m, txt, src, tgt, level) ==
    CASE m = NORMAL ->
           [op |-> "translateText", text |-> txt,
            sourceLang |-> LangNameOrCode(src), targetLang |-> LangNameOrCode(tgt)]
      [] m = EASY_READ ->
           [op |-> "simplifyText", text |-> txt,
            lang |-> LangNameOrCode(src), level |-> level]
      [] m = AAC ->
           [op |-> "generateAAC", text |-> txt, lang |-> LangNameOrCode(src)]

\* The generate button (disabled while isLoading; its other two disabling
\* conditions are handleGenerate's own early return) and handleGenerate up
\* to its await.
handleGenerate ==
    /\ ~isLoading
    /\ IF GeneratePrecondition(inputText, sourceLang)
       THEN /\ genInFlight < MaxGenInFlight
            /\ isLoading' = TRUE
            /\ error' = NULL
            /\ outputText' = << >>
            /\ genInFlight' = genInFlight + 1
            /\ gatewayCall' =
                  GenerateCall(mode, inputText, sourceLang, targetLang, easyReadLevel)
       ELSE /\ gatewayCall' = NoCall
            /\ UNCHANGED << isLoading, error, outputText, genInFlight >>
    /\ lastOp' = "generate"
    /\ UNCHANGED << mode, inputText, sourceLang, targetLang, easyReadLevel,
                    isDetectingLang, debounceTimer, timers, detectInFlight,
                    readsPending, extractsPending >>

\* handleGenerate after its await: setOutputText or the catch block, then finally
GenerateDone(reply) ==
    /\ genInFlight > 0
    /\ genInFlight' = genInFlight - 1
    /\ IF generateContent(reply).ok
       THEN /\ outputText' = generateContent(reply).value
            /\ UNCHANGED error
       ELSE /\ error' = generateContent(reply).message
            /\ UNCHANGED outputText
    /\ isLoading' = FALSE
    /\ lastOp' = IF generateContent(reply).ok THEN "generateSucceeded" ELSE "generateFailed"
    /\ gatewayCall' = NoCall
    /\ UNCHANGED << mode, inputText, sourceLang, targetLang, easyReadLevel,
                    isDetectingLang, debounceTimer, timers, detectInFlight,
                    readsPending, extractsPending >>

\* handleImageUpload up to reader.readAsDataURL(file); the upload control is
\* never disabled.
handleImageUpload ==
    /\ readsPending + extractsPending < MaxUploads
    /\ isLoading' = TRUE
    /\ error' = NULL
    /\ readsPending' = readsPending + 1
    /\ lastOp' = "imageUpload"
    /\ gatewayCall' = NoCall
    /\ UNCHANGED << mode, inputText, outputText, sourceLang, targetLang,
                    easyReadLevel, isDetectingLang, debounceTimer, timers, detectInFlight,
                    genInFlight, extractsPending >>

\* reader.onloadend after a successful read, up to its await
ReaderLoadEnd ==
    /\ readsPending > 0
    /\ readsPending' = readsPending - 1
    /\ extractsPending' = extractsPending + 1
    /\ lastOp' = "readerLoadEnd"
    /\ gatewayCall' = [op |-> "extractTextFromImage"]
    /\ UNCHANGED << mode, inputText, outputText, sourceLang, targetLang,
                    easyReadLevel, isLoading, isDetectingLang, error,
                    debounceTimer, timers, detectInFlight, genInFlight >>

\* reader.onerror; the loadend event that follows throws on the null
\* reader.result before it sets any state
ReaderError ==
    /\ readsPending > 0
    /\ readsPending' = readsPending - 1
    /\ error' = MsgRead
    /\ isLoading' = FALSE
    /\ lastOp' = "readerError"
    /\ gatewayCall' = NoCall
    /\ UNCHANGED << mode, inputText, outputText, sourceLang, targetLang,
                    easyReadLevel, isDetectingLang, debounceTimer, timers, detectInFlight,
                    genInFlight, extractsPending >>

\* reader.onloadend after its await: setInputText or the catch block, then finally
ExtractDone(reply) ==
    /\ extractsPending > 0
    /\ extractsPending' = extractsPending - 1
    /\ IF extractTextFromImage(reply).ok
       THEN /\ Render(extractTextFromImage(reply).value, sourceLang, targetLang,
                      isDetectingLang)
            /\ UNCHANGED error
       ELSE /\ error' = extractTextFromImage(reply).message
            /\ UNCHANGED << inputText, sourceLang, targetLang, debounceTimer, timers,
                            isDetectingLang >>
    /\ isLoading' = FALSE
    /\ lastOp' = IF extractTextFromImage(reply).ok THEN "extractSucceeded"
                                                   ELSE "extractFailed"
    /\ gatewayCall' = NoCall
    /\ UNCHANGED << mode, outputText, easyReadLevel, detectInFlight, genInFlight,
                    readsPending >>

\* The setTimeout callback up to its await: geminiService.detectLanguage(inputText)
\* with the inputText of its closure.
TimerFires ==
    /\ BagCardinality(detectInFlight) < MaxDetectInFlight
    /\ \E t \in BagToSet(timers) :
          /\ timers' = timers (-) SetToBag({t})
          /\ detectInFlight' = detectInFlight (+) SetToBag({t})
          /\ debounceTimer' = IF debounceTimer = t THEN NoTimer ELSE debounceTimer
          /\ gatewayCall' = [op |-> "detectLanguage", text |-> t.inputText]
    /\ lastOp' = "timerFired"
    /\ UNCHANGED << mode, inputText, outputText, sourceLang, targetLang,
                    easyReadLevel, isLoading, isDetectingLang, error,
                    genInFlight, readsPending, extractsPending >>

\* LANGUAGES.find(l => l.code !== detected && l.code === 'en')
\*   || LANGUAGES.find(l => l.code !== detected)
NewTarget(detected) ==
    IF \E i \in DOMAIN LANGUAGES :
          LANGUAGES[i].code # detected /\ LANGUAGES[i].code = "en"
    THEN "en"
    ELSE IF FilterCodeNot(LANGUAGES, detected) # << >>
         THEN Head(FilterCodeNot(LANGUAGES, detected)).code
         ELSE NULL

\* The setTimeout callback after its await. cl is its closure, so the
\* sourceLang and targetLang it tests are those of the render that started
\* the timer. Yields the setSourceLang and setTargetLang it calls, as the
\* pair of values the next render sees.
ApplyDetection(cl, result, src, tgt) ==
    IF result.ok
    THEN IF cl.sourceLang = DETECT_LANGUAGE_CODE
         THEN << result.value,
                 IF cl.targetLang = result.value /\ NewTarget(result.value) # NULL
                 THEN NewTarget(result.value) ELSE tgt >>
         ELSE << src, tgt >>
    ELSE IF cl.sourceLang = DETECT_LANGUAGE_CODE
         THEN << "en", tgt >>
         ELSE << src, tgt >>

\* DetectDone with the catch block reporting the failure through setError
DetectDone_ShowsError(cl, reply) ==
    /\ BagIn(cl, detectInFlight)
    /\ detectInFlight' = detectInFlight (-) SetToBag({cl})
    /\ LET applied == ApplyDetection(cl, detectLanguage(reply), sourceLang, targetLang)
       IN  Render(inputText, applied[1], applied[2], FALSE)
    /\ lastOp' = IF detectLanguage(reply).ok THEN "detectSucceeded" ELSE "detectFailed"
    /\ gatewayCall' = NoCall
    /\ error' = IF detectLanguage(reply).ok THEN error
                                            ELSE detectLanguage(reply).message
    /\ UNCHANGED << mode, outputText, easyReadLevel, isLoading,
                    genInFlight, readsPending, extractsPending >>

DetectDone(cl, reply) ==
    /\ BagIn(cl, detectInFlight)
    /\ detectInFlight' = detectInFlight (-) SetToBag({cl})
    /\ LET applied == ApplyDetection(cl, detectLanguage(reply), sourceLang, targetLang)
       IN  Render(inputText, applied[1], applied[2], FALSE)
    /\ lastOp' = IF detectLanguage(reply).ok THEN "detectSucceeded" ELSE "detectFailed"
    /\ gatewayCall' = NoCall
    /\ UNCHANGED << mode, outputText, easyReadLevel, isLoading, error,
                    genInFlight, readsPending, extractsPending >>

-----------------------------------------------------------------------------

Init ==
    /\ mode = NORMAL
    /\ inputText = << >>
    /\ outputText = << >>
    /\ sourceLang = DETECT_LANGUAGE_CODE
    /\ targetLang = DefaultTargetLang
    /\ easyReadLevel = DefaultEasyReadLevel
    /\ isLoading = FALSE
    /\ isDetectingLang = FALSE
    /\ error = NULL
    /\ debounceTimer = NoTimer
    /\ timers = EmptyBag
    /\ detectInFlight = EmptyBag
    /\ genInFlight = 0
    /\ readsPending = 0
    /\ extractsPending = 0
    /\ lastOp = "init"
    /\ gatewayCall = NoCall

\* The user edits the text or the languages
Editing ==
    \/ \E txt \in Texts : SetInputText(txt)
    \/ \E c \in SourceCodes : SetSourceLang(c)
    \/ \E c \in LangCodes : SetTargetLang(c)
    \/ handleSwapLanguages

\* The debounce timer and the detection request it issues
Detection ==
    \/ TimerFires
    \/ \E cl \in DOMAIN detectInFlight, reply \in DetectReplies : DetectDone(cl, reply)

\* Mode, level, generation and image upload
Session ==
    \/ \E m \in TranslationMode : SetMode(m)
    \/ \E l \in Levels : SetEasyReadLevel(l)
    \/ handleGenerate
    \/ \E reply \in GenerateReplies : GenerateDone(reply)
    \/ handleImageUpload
    \/ ReaderLoadEnd
    \/ ReaderError
    \/ \E reply \in ExtractReplies : ExtractDone(reply)

Next == Editing \/ Detection \/ Session

\* The whole program
Spec == Init /\ [][Next]_vars

\* The detection coordinator under the user's edits: mode stays Normal and
\* no generation or upload runs. Every behaviour is a behaviour of Spec.
NextDetection == Editing \/ Detection
SpecDetection == Init /\ [][NextDetection]_vars

\* Generation and image upload under the user's edits: timers are started
\* and canceled but none fires. Every behaviour is a behaviour of Spec.
NextSession == Editing \/ Session
SpecSession == Init /\ [][NextSession]_vars

\* Image upload: the read, the extraction and their completions
Upload ==
    \/ handleImageUpload
    \/ ReaderLoadEnd
    \/ ReaderError
    \/ \E reply \in ExtractReplies : ExtractDone(reply)

\* Generation and its completion
Generation ==
    \/ handleGenerate
    \/ \E reply \in GenerateReplies : GenerateDone(reply)

\* Everything that changes inputText, next to the detection coordinator:
\* mode stays Normal and no generation runs. Every behaviour is a behaviour
\* of Spec.
NextInput == Editing \/ Detection \/ Upload
SpecInput == Init /\ [][NextInput]_vars

\* Detection and generation side by side: mode stays Normal and no image is
\* uploaded. Every behaviour is a behaviour of Spec.
NextConcurrent == Editing \/ Detection \/ Generation
SpecConcurrent == Init /\ [][NextConcurrent]_vars

-----------------------------------------------------------------------------
(* Claims *)

\* Steps that change the input text or are the user's choice of a language
UserChangeOps ==
    {"setInputText", "setSourceLang", "setTargetLang", "swapLanguages",
     "extractSucceeded"}

GenerateOps == {"translateText", "simplifyText", "generateAAC"}

\* C1: when the user has just set sourceLang to a concrete code and a
\* detection request that was in flight meanwhile then succeeds, sourceLang
\* keeps the user's value and targetLang is not reassigned.
C1_DetectionKeepsUserChoice ==
    [][ ( /\ lastOp = "setSourceLang"
          /\ sourceLang # DETECT_LANGUAGE_CODE
          /\ lastOp' = "detectSucceeded" )
        => ( sourceLang' = sourceLang /\ targetLang' = targetLang ) ]_vars

\* C2: at most one detectLanguage request is in flight in every reachable state.
C2_AtMostOneDetectionInFlight ==
    BagCardinality(detectInFlight) <= 1

\* C3: the completion (success or failure) of a request issued for an
\* earlier snapshot of inputText changes neither sourceLang nor targetLang.
C3_SupersededDetectionDiscarded ==
    [][ ( \E cl \in DOMAIN detectInFlight, reply \in DetectReplies :
             /\ cl.inputText # inputText
             /\ DetectDone(cl, reply) )
        => UNCHANGED << sourceLang, targetLang >> ]_vars

\* C4: with the generate trigger disabled exactly while isLoading, no
\* generate() is issued while an earlier generation's gateway call is
\* outstanding: at most one generation is ever in flight.
C4_NoGenerateWhileOutstanding ==
    [][ gatewayCall'.op \in GenerateOps => genInFlight = 0 ]_vars

\* C5: error is non-null and outputText is non-empty never hold together.
C5_ErrorAndOutputExclusive ==
    ~(error # NULL /\ outputText # << >>)

\* C6: in Normal mode targetLang differs from sourceLang in every reachable state.
C6_TargetDiffersFromSource ==
    mode = NORMAL => targetLang # sourceLang

\* C7: a generate() whose preconditions hold issues exactly one gateway
\* call, fixed by the state at the call: Normal -> translateText(inputText,
\* source name, target name), Easy to Read -> simplifyText(inputText,
\* source name, easyReadLevel), AAC -> generateAAC(inputText, source name).
C7_GenerateIssuesTheCallOfItsMode ==
    [][ ( /\ lastOp' = "generate"
          /\ ~IsBlank(inputText)
          /\ sourceLang # DETECT_LANGUAGE_CODE )
        => /\ genInFlight' = genInFlight + 1
           /\ gatewayCall'.op \in GenerateOps
           /\ gatewayCall'.text = inputText
           /\ mode = NORMAL =>
                 /\ gatewayCall'.op = "translateText"
                 /\ gatewayCall'.sourceLang = LangNameOrCode(sourceLang)
                 /\ gatewayCall'.targetLang = LangNameOrCode(targetLang)
           /\ mode = EASY_READ =>
                 /\ gatewayCall'.op = "simplifyText"
                 /\ gatewayCall'.lang = LangNameOrCode(sourceLang)
                 /\ gatewayCall'.level = easyReadLevel
           /\ mode = AAC =>
                 /\ gatewayCall'.op = "generateAAC"
                 /\ gatewayCall'.lang = LangNameOrCode(sourceLang) ]_vars

\* C7 witness: an Easy-to-Read generation at level 15 has issued simplifyText
\* with level 15 and the source language's name.
C7_Witness ==
    /\ lastOp = "generate"
    /\ mode = EASY_READ
    /\ gatewayCall.op = "simplifyText"
    /\ gatewayCall.level = MaxEasyReadLevel
    /\ gatewayCall.lang = <<"F","r","e","n","c","h">>
    /\ genInFlight = 1

\* C8: when a generate() completes, isLoading is false; after a failure
\* outputText is empty and error is non-null; after a success outputText is
\* the gateway's result and error is null.
C8_GenerateCompletion ==
    [][ \A reply \in GenerateReplies :
           GenerateDone(reply) =>
              /\ isLoading' = FALSE
              /\ ~reply.ok => (outputText' = << >> /\ error' # NULL)
              /\ reply.ok => (outputText' = reply.text /\ error' = NULL) ]_vars

\* C9: generate() with blank inputText or with sourceLang = 'auto' issues no
\* gateway call and leaves every session field unchanged.
C9_GenerateNoOp ==
    [][ ( /\ lastOp' = "generate"
          /\ (IsBlank(inputText) \/ sourceLang = DETECT_LANGUAGE_CODE) )
        => /\ gatewayCall' = NoCall
           /\ UNCHANGED << mode, inputText, outputText, sourceLang, targetLang,
                           easyReadLevel, isLoading, isDetectingLang, error,
                           debounceTimer, detectInFlight, genInFlight,
                           readsPending, extractsPending >> ]_vars

\* C9 witness: generate() has just run with a non-blank text and
\* sourceLang = 'auto', and issued nothing.
C9_Witness ==
    /\ lastOp = "generate"
    /\ gatewayCall = NoCall
    /\ sourceLang = DETECT_LANGUAGE_CODE
    /\ ~IsBlank(inputText)
    /\ genInFlight = 0
    /\ ~isLoading

\* C10: once a text longer than 10 characters (trimmed) is set while
\* sourceLang = 'auto', and as long as no input or language change follows,
\* the debounce timer stays pending until it fires; when it fires it calls
\* detectLanguage with that text; and when that request returns a catalog
\* code, sourceLang is that code, no timer is pending and no request is in
\* flight.
C10_DetectsAfterDebounce ==
    [][ /\ ( debounceTimer.pending /\ lastOp' \notin UserChangeOps )
           => \/ debounceTimer' = debounceTimer
              \/ /\ lastOp' = "timerFired"
                 /\ gatewayCall' = [op |-> "detectLanguage", text |-> inputText]
        /\ \A cl \in DOMAIN detectInFlight, reply \in DetectReplies :
              ( /\ cl.inputText = inputText
                /\ cl.targetLang = targetLang
                /\ sourceLang = DETECT_LANGUAGE_CODE
                /\ detectLanguage(reply).ok
                /\ DetectDone(cl, reply) )
              => /\ sourceLang' = detectLanguage(reply).value
                 /\ ~debounceTimer'.pending
                 /\ detectInFlight' = EmptyBag ]_vars

\* C11: when a detectLanguage request fails while sourceLang is still 'auto',
\* sourceLang becomes 'en' (with a blank inputText the reset effect returns
\* it to 'auto' in the same task); when the user has set sourceLang to a
\* concrete code while the request was in flight, the failure leaves
\* sourceLang at the user's value.
C11_DetectionFailureFallback ==
    [][ lastOp' = "detectFailed"
        => /\ ( sourceLang = DETECT_LANGUAGE_CODE /\ ~IsBlank(inputText) )
                 => sourceLang' = "en"
           /\ ( sourceLang = DETECT_LANGUAGE_CODE /\ IsBlank(inputText) )
                 => sourceLang' \in {"en", DETECT_LANGUAGE_CODE}
           /\ ( sourceLang # DETECT_LANGUAGE_CODE /\ lastOp = "setSourceLang" )
                 => sourceLang' = sourceLang ]_vars

\* C12: whenever a step leaves inputText empty or whitespace-only, the
\* render it causes ends with sourceLang = 'auto' (a concrete sourceLang is
\* reset); hence blank inputText implies sourceLang = 'auto' in every state
\* between tasks.
C12_BlankInputResetsToAuto ==
    [][ IsBlank(inputText') => sourceLang' = DETECT_LANGUAGE_CODE ]_vars

\* C12 witness: the user has just replaced the text by a whitespace-only one
\* and sourceLang is 'auto' although a generated output shows that a
\* concrete source language had been chosen.
C12_Witness ==
    /\ lastOp = "setInputText"
    /\ inputText = TextSpaces
    /\ sourceLang = DETECT_LANGUAGE_CODE
    /\ outputText # << >>

\* C13: in Normal mode with sourceLang # 'auto', swapLanguages applied twice
\* restores the pair (sourceLang, targetLang): the first swap leaves a state
\* in which swapping is allowed again and no effect resets sourceLang, and
\* the second yields the original pair.
C13_SwapIsInvolution ==
    ( mode = NORMAL /\ sourceLang # DETECT_LANGUAGE_CODE )
    => LET once == SwapLanguages(sourceLang, targetLang)
           twice == SwapLanguages(once[1], once[2])
       IN  /\ CanSwap(mode, once[1])
           /\ ~ShouldReset(inputText, once[1])
           /\ twice = << sourceLang, targetLang >>

\* C13 witness: a swap has just run in Normal mode on two different languages.
C13_Witness ==
    /\ lastOp = "swapLanguages"
    /\ mode = NORMAL
    /\ sourceLang = "fr"
    /\ targetLang = "en"

\* C14: swapLanguages in Normal mode with sourceLang # 'auto' exchanges
\* sourceLang and targetLang in one step and changes nothing else of the
\* session; in Easy-to-Read or AAC mode, or with sourceLang = 'auto', it
\* leaves every session field unchanged.
C14_SwapExchangesOrNoOp ==
    [][ lastOp' = "swapLanguages"
        => /\ ( mode = NORMAL /\ sourceLang # DETECT_LANGUAGE_CODE )
                 => /\ sourceLang' = targetLang
                    /\ targetLang' = sourceLang
           /\ ( mode # NORMAL \/ sourceLang = DETECT_LANGUAGE_CODE )
                 => UNCHANGED << sourceLang, targetLang, debounceTimer,
                                 isDetectingLang >>
           /\ gatewayCall' = NoCall
           /\ UNCHANGED << mode, inputText, outputText, easyReadLevel, isLoading,
                           error, detectInFlight, genInFlight, readsPending,
                           extractsPending >> ]_vars

\* C14 witness: a swap has just run in AAC mode with a concrete sourceLang
\* different from targetLang, and they are as they were.
C14_Witness ==
    /\ lastOp = "swapLanguages"
    /\ mode = AAC
    /\ sourceLang = "fr"
    /\ targetLang = DefaultTargetLang

\* C15: in every reachable state targetLang is a code of the Language
\* Catalog, and so never the sentinel 'auto'.
C15_TargetIsCatalogCode ==
    /\ targetLang # DETECT_LANGUAGE_CODE
    /\ \E i \in DOMAIN LANGUAGES : LANGUAGES[i].code = targetLang

\* C15 witness: a swap has just moved the former source language into
\* targetLang.
C15_Witness ==
    /\ lastOp = "swapLanguages"
    /\ targetLang = "fr"
    /\ sourceLang = "en"

\* C16: for every value of sourceLang, 'auto' included, the selectable
\* target list is the Language Catalog, in its order, without the entry
\* whose code is sourceLang; it never contains the current source language.
C16_TargetListExcludesSource ==
    LET list == targetLanguages(sourceLang)
        kept == {i \in DOMAIN LANGUAGES : LANGUAGES[i].code # sourceLang}
    IN  /\ \A i \in DOMAIN list : list[i].code # sourceLang
        /\ Len(list) = Cardinality(kept)
        /\ \A i \in kept :
              list[Cardinality({j \in kept : j <= i})] = LANGUAGES[i]

\* C16 witness: the source language is a catalog entry and the list is the
\* two others.
C16_Witness ==
    /\ lastOp = "setSourceLang"
    /\ sourceLang = "en"
    /\ Len(targetLanguages(sourceLang)) = Len(LANGUAGES) - 1

\* C17: handleImageUpload sets isLoading and clears error on entry. When the
\* extraction succeeds inputText becomes exactly the extracted text, and if
\* that changes it a debounce timer is pending afterwards exactly when
\* sourceLang is 'auto' and the trimmed text is longer than 10 characters,
\* as for a typed change. When the read or the extraction fails error is
\* set and inputText is unchanged. In every case isLoading is false when the
\* upload completes.
C17_ImageUpload ==
    [][ /\ lastOp' = "imageUpload" => ( isLoading' = TRUE /\ error' = NULL )
        /\ lastOp' = "readerError"
              => ( isLoading' = FALSE /\ error' # NULL /\ inputText' = inputText )
        /\ \A reply \in ExtractReplies :
              ExtractDone(reply)
              => /\ isLoading' = FALSE
                 /\ ~reply.ok => ( error' # NULL /\ inputText' = inputText )
                 /\ reply.ok =>
                       /\ inputText' = reply.text
                       /\ reply.text # inputText =>
                             /\ debounceTimer'.pending
                                   <=> ( sourceLang' = DETECT_LANGUAGE_CODE
                                         /\ Len(Trim(reply.text)) > DetectMinLength )
                             /\ debounceTimer'.pending
                                   => debounceTimer'.inputText = reply.text ]_vars

\* C17 witness: an extraction has just succeeded, the text is the extracted
\* one and its debounce timer is pending.
C17_Witness ==
    /\ lastOp = "extractSucceeded"
    /\ inputText = TextB
    /\ debounceTimer.pending
    /\ debounceTimer.inputText = TextB
    /\ isLoading = FALSE

\* C18: a detection completion (success or failure) leaves isLoading, error,
\* outputText and inputText unchanged, so a detection failure is never
\* shown as an error; a generation completion leaves sourceLang,
\* targetLang, inputText, the debounce timer and the detection requests in
\* flight unchanged.
C18_DetectionAndGenerationIndependent ==
    [][ /\ lastOp' \in {"detectSucceeded", "detectFailed"}
              => UNCHANGED << isLoading, error, outputText, inputText, genInFlight >>
        /\ lastOp' \in {"generateSucceeded", "generateFailed"}
              => UNCHANGED << sourceLang, targetLang, inputText, debounceTimer,
                              detectInFlight, isDetectingLang >> ]_vars

\* C18 witness: a detection has just failed while a generation is
\* outstanding, and no error is set.
C18_Witness ==
    /\ lastOp = "detectFailed"
    /\ genInFlight = 1
    /\ isLoading = TRUE
    /\ error = NULL

\* C19: when a successful detection is applied and the detected code equals
\* the targetLang of that moment, targetLang becomes 'en' if the detected
\* code is not 'en', else the first catalog entry different from it; hence
\* right after an applied detection sourceLang differs from targetLang.
C19_TargetReassignedOnClash ==
    [][ \A cl \in DOMAIN detectInFlight, reply \in DetectReplies :
           ( DetectDone(cl, reply) /\ detectLanguage(reply).ok )
           => /\ targetLang = detectLanguage(reply).value
                 => targetLang' =
                       IF detectLanguage(reply).value # "en" THEN "en"
                       ELSE LANGUAGES[CHOOSE i \in DOMAIN LANGUAGES :
                               /\ LANGUAGES[i].code # "en"
                               /\ \A j \in 1..(i-1) : LANGUAGES[j].code = "en"].code
              /\ sourceLang' # targetLang' ]_vars

\* C20: a debounce window is started only when sourceLang = 'auto' and the
\* trimmed inputText is longer than 10 characters; whenever the trimmed
\* length is 10 or less or sourceLang is a concrete code no timer is left
\* pending; and a detectLanguage request is only issued from a state where
\* sourceLang is 'auto' and the trimmed input is longer than 10 characters.
C20_DebounceOnlyWhenAutoAndLong ==
    [][ /\ ( debounceTimer'.pending /\ debounceTimer' # debounceTimer )
              => /\ sourceLang' = DETECT_LANGUAGE_CODE
                 /\ Len(Trim(inputText')) > 10
        /\ ( sourceLang' # DETECT_LANGUAGE_CODE \/ Len(Trim(inputText')) <= 10 )
              => ~debounceTimer'.pending
        /\ gatewayCall'.op = "detectLanguage"
              => /\ sourceLang = DETECT_LANGUAGE_CODE
                 /\ Len(Trim(inputText)) > 10 ]_vars

\* A request issued for a padded text whose trimmed length is 11.
C20_Witness ==
    /\ lastOp = "timerFired"
    /\ gatewayCall.op = "detectLanguage"
    /\ gatewayCall.text = TextB
    /\ sourceLang = DETECT_LANGUAGE_CODE

\* C21: the debounce timer is single-slot: the timer table never holds more
\* than one pending timer, the pending timer is the one debounceTimeoutRef
\* names (starting a new window has cancelled the one before it), and a
\* detectLanguage request is only issued by that timer, for the current
\* inputText, never by a cancelled one.
C21_DebounceTimerSingleSlot ==
    [][ /\ BagCardinality(timers') <= 1
        /\ BagToSet(timers') = IF debounceTimer'.pending THEN {debounceTimer'} ELSE {}
        /\ gatewayCall'.op = "detectLanguage"
              => /\ debounceTimer.pending
                 /\ gatewayCall'.text = debounceTimer.inputText
                 /\ debounceTimer.inputText = inputText ]_vars

\* The user chose target 'fr' while the timer of TextA was pending and no
\* request was in flight: the effect cleared that timer and started the one
\* whose closure holds 'fr'.
C21_Witness ==
    /\ lastOp = "setTargetLang"
    /\ detectInFlight = EmptyBag
    /\ debounceTimer = Closure(TextA, DETECT_LANGUAGE_CODE, "fr")
    /\ BagToSet(timers) = {debounceTimer}
    /\ BagCardinality(timers) = 1

\* C22: detectLanguage returns the code of the catalog entry whose name
\* equals the endpoint's answer after trimming, compared without regard to
\* case; when no entry matches it fails, with a failure that differs from
\* the one it raises when the endpoint call itself fails.
C22_DetectLanguageResult ==
    [][ \A cl \in DOMAIN detectInFlight, reply \in DetectReplies :
           ( DetectDone(cl, reply) /\ reply.ok )
           => IF \E i \in DOMAIN LANGUAGES :
                    ToLowerCase(LANGUAGES[i].name) = ToLowerCase(Trim(reply.text))
              THEN /\ detectLanguage(reply).ok
                   /\ \E i \in DOMAIN LANGUAGES :
                         /\ ToLowerCase(LANGUAGES[i].name) = ToLowerCase(Trim(reply.text))
                         /\ detectLanguage(reply).value = LANGUAGES[i].code
              ELSE /\ ~detectLanguage(reply).ok
                   /\ detectLanguage(reply) # detectLanguage(Threw) ]_vars

\* C23: in every reachable state isLoading is true whenever a generation
\* call or an image-extraction call is outstanding, also when two of them
\* overlap and one completes first.
C23_LoadingWhileCallOutstanding ==
    ( genInFlight > 0 \/ extractsPending > 0 ) => isLoading = TRUE

\* C24: in every reachable state isDetectingLang is true whenever a debounce
\* timer is pending or a detectLanguage request is in flight, and false
\* when neither is (the detection is idle).
C24_DetectingFlagTracksDetection ==
    isDetectingLang = ( \/ BagCardinality(timers) > 0
                        \/ BagCardinality(detectInFlight) > 0 )

====
